---- MODULE Spec2Model ----
(***************************************************************************)
(* MultiStat: multi-room thermostat.                                       *)
(*                                                                         *)
(* Six specifications over one set of variables:                          *)
(*   SpecRooms  RoomManager (room_manager.py): measurement intake and the  *)
(*              selection of the controlling room;                         *)
(*   SpecCodec  OpenThermProtocol's frame codec (opentherm.py);            *)
(*   SpecPid    one PIDController (pid_controller.py);                     *)
(*   SpecValves RoomManager with its HRV valves and their controllers;     *)
(*   SpecLink   OpenThermController (opentherm.py): start, stop and the    *)
(*              boiler command;                                            *)
(*   Spec       MultiRoomThermostat (main.py): start, the main loop with   *)
(*              its cycle steps, the signal handler and shutdown, over the *)
(*              boiler link (opentherm.py) and the Home Assistant client   *)
(*              (ha_integration.py).  Its valve step records the rooms it  *)
(*              calculates and the positions it sends; the positions       *)
(*              themselves are computed in SpecValves.                     *)
(*                                                                         *)
(* Temperatures are integers in tenths of a degree (21.5 C is 215): every  *)
(* temperature the model uses has 0.1 resolution, and for those            *)
(* int(t * 10) is exactly the number of tenths.                            *)
(***************************************************************************)
EXTENDS Integers, Sequences, FiniteSets, TLC

VARIABLES
    rooms,              \* RoomManager.rooms: sequence of Room records
    last_op,            \* the RoomManager/codec operation that acted last
    selected,           \* result of the last get_room_with_highest_difference
    room_in,            \* arguments of the last update_room_temperature
    codec_in,           \* arguments of the last codec operation
    frame,              \* the frame _create_message built / handed to _parse_message
    parsed,             \* result of the last _parse_message
    pc,                 \* position of the MultiRoomThermostat coroutine
    running,            \* MultiRoomThermostat.running
    cycle,              \* number of the main-loop cycle in flight (0: none yet)
    connected,          \* OpenThermController.connected
    serial,             \* OpenThermProtocol.serial: "none" | "open" | "closed"
    session,            \* HomeAssistantAPI.session: "none" | "open" | "closed"
    central,            \* central_thermostat_entity is configured
    steps,              \* the steps of the cycle in flight that have completed
    boiler,             \* what _update_boiler_control did in the cycle in flight
    fetched,            \* per room: what get_temperature returned this cycle
    valves_calculated,  \* rooms whose calculate_hrv_positions ran this cycle
    valve_writes,       \* set_valve_position calls of this cycle
    failures,           \* cycles that ended in the loop's except clause
    control,            \* result of the last get_control_temperatures
    controller,         \* a PIDController
    pid_in,             \* arguments of the last PIDController call
    pid_out,            \* what the last PIDController.update returned
    pid_calls,          \* number of update calls so far
    pid_paths,          \* the paths of update taken so far
    valves,             \* per room: its HRVValve objects (Room.hrv_valves)
    calc_in,            \* arguments of the last valve calculation
    link_ret,           \* what the last call on the OpenThermController did
    link_calls,         \* number of calls on the OpenThermController so far
    stale_handles       \* serial handles the link opened that are no longer
                        \* protocol.serial and were not closed

roomVars  == <<rooms, last_op, selected, room_in>>
codecVars == <<codec_in, frame, parsed>>
appVars   == <<pc, running, cycle, connected, serial, session, central, steps,
               boiler, fetched, valves_calculated, valve_writes, failures>>
pidVars   == <<controller, pid_in, pid_out, pid_calls, pid_paths>>
valveVars == <<valves, calc_in>>
linkVars  == <<link_ret, link_calls, stale_handles>>
compVars  == <<control, pidVars, valveVars, linkVars>>
vars      == <<roomVars, codecVars, appVars, compVars>>

----------------------------------------------------------------------------
(* Bounds of the model *)

MaxRooms == 3
MaxAppRooms == 2
MaxValves == 1
MaxCycles == 2

RoomNameSeq == <<"Living", "Bedroom", "Kitchen", "Study">>
RoomNames == {RoomNameSeq[i] : i \in 1..MaxRooms}
Targets   == {200, 210}
Currents  == {190, 195, 200, 210}

----------------------------------------------------------------------------
(* Room / RoomManager (room_manager.py) *)

\* Optional[float]: None is the empty sequence, a present value t is <<t>>.
None == <<>>
Some(t) == <<t>>

\* Optional[Room]: a room is returned as its index in RoomManager.rooms.
NoRoom == 0

Abs(x) == IF x < 0 THEN -x ELSE x

\* Room(...) as _load_rooms constructs it: current_temp defaults to None.
Room(name, target, nvalves) ==
    [name |-> name, target_temp |-> target, current_temp |-> None,
     hrv_valves |-> nvalves]

\* The number of valves configured for the room at index i.
ValveCount(i) == i % (MaxValves + 1)

\* The room lists _load_rooms builds: every room has a name of its own or, as
\* nothing in the configuration forbids, the second has the name of the first.
RoomConfigs ==
    UNION {{[i \in 1..n |-> Room(RoomNameSeq[nm[i]], tg[i], ValveCount(i))] :
               nm \in {f \in [1..n -> 1..n] :
                         \A i \in 1..n : f[i] \in {1, i} /\ (i > 2 => f[i] = i)},
               tg \in [1..n -> Targets]} :
           n \in 0..MaxRooms}

\* The same with every room under a name of its own.
AppConfigs ==
    UNION {{[i \in 1..n |-> Room(RoomNameSeq[i], tg[i], ValveCount(i))] :
               tg \in [1..n -> Targets]} :
           n \in 0..MaxAppRooms}

get_temperature_difference(room) ==
    IF room.current_temp = None THEN 0
    ELSE Abs(room.target_temp - room.current_temp[1])

needs_heating_le(room) ==
    IF room.current_temp = None THEN FALSE
    ELSE room.current_temp[1] <= room.target_temp

needs_heating(room) ==
    IF room.current_temp = None THEN FALSE
    ELSE room.current_temp[1] < room.target_temp

\* The list comprehension of get_room_with_highest_difference: the indices,
\* in list order, of the rooms that pass the filter.
RECURSIVE rooms_needing_heat(_, _)
rooms_needing_heat(rs, i) ==
    IF i > Len(rs) THEN <<>>
    ELSE (IF needs_heating(rs[i]) /\ rs[i].current_temp # None
          THEN <<i>> ELSE <<>>) \o rooms_needing_heat(rs, i + 1)

RECURSIVE max_last(_, _, _, _)
max_last(rs, cand, k, best) ==
    IF k > Len(cand) THEN best
    ELSE max_last(rs, cand, k + 1,
                  IF get_temperature_difference(rs[cand[k]])
                       >= get_temperature_difference(rs[best])
                  THEN cand[k] ELSE best)

\* Python's max(iterable, key=...): the first element is the best so far and
\* a later one replaces it only when its key is strictly greater.
RECURSIVE max_by_difference(_, _, _, _)
max_by_difference(rs, cand, k, best) ==
    IF k > Len(cand) THEN best
    ELSE max_by_difference(rs, cand, k + 1,
                           IF get_temperature_difference(rs[cand[k]])
                                > get_temperature_difference(rs[best])
                           THEN cand[k] ELSE best)

get_room_with_highest_difference(rs) ==
    IF rs = <<>> THEN NoRoom
    ELSE LET cand == rooms_needing_heat(rs, 1)
         IN  IF cand = <<>> THEN NoRoom
             ELSE max_by_difference(rs, cand, 2, cand[1])

\* The index of the first room with that name, NoRoom when there is none.
RECURSIVE find_room(_, _, _)
find_room(rs, room_name, i) ==
    IF i > Len(rs) THEN NoRoom
    ELSE IF rs[i].name = room_name THEN i
    ELSE find_room(rs, room_name, i + 1)

update_every_room_of_name(rs, room_name, temperature) ==
    [i \in 1..Len(rs) |->
        IF rs[i].name = room_name
        THEN [rs[i] EXCEPT !.current_temp = Some(temperature)]
        ELSE rs[i]]

update_room_temperature(rs, room_name, temperature) ==
    LET i == find_room(rs, room_name, 1)
    IN  IF i = NoRoom THEN rs
        ELSE [rs EXCEPT ![i].current_temp = Some(temperature)]

control_temperatures_any_present(rs) ==
    LET present == {i \in 1..Len(rs) : rs[i].current_temp # None}
    IN  IF present = {} THEN None
        ELSE LET r == CHOOSE i \in present : \A j \in present : i <= j
             IN  <<rs[r].target_temp, rs[r].current_temp[1]>>

control_temperatures_first_heating(rs) ==
    LET heating == {i \in 1..Len(rs) : needs_heating(rs[i])}
    IN  IF heating = {} THEN None
        ELSE LET r == CHOOSE i \in heating : \A j \in heating : i <= j
             IN  <<rs[r].target_temp, rs[r].current_temp[1]>>

get_control_temperatures(rs) ==
    LET r == get_room_with_highest_difference(rs)
    IN  IF r # NoRoom /\ rs[r].current_temp # None
        THEN <<rs[r].target_temp, rs[r].current_temp[1]>>
        ELSE None

----------------------------------------------------------------------------
(* SpecRooms: a RoomManager under its callers' operations *)

\* What _update_boiler_control did in a cycle; NoBoiler before it ran.
NoBoiler ==
    [temps |-> None, room |-> NoRoom, after |-> <<>>, called |-> FALSE,
     raised |-> "", value |-> FALSE, writes |-> <<>>, reads |-> 0,
     reply |-> <<>>, thermostat |-> FALSE]

AppIdle ==
    /\ pc = "idle" /\ running = FALSE /\ cycle = 0
    /\ connected = FALSE /\ serial = "none" /\ session = "none"
    /\ central = FALSE /\ steps = <<>> /\ boiler = NoBoiler
    /\ fetched = <<>> /\ valves_calculated = {} /\ valve_writes = 0
    /\ failures = 0

CodecIdle ==
    /\ codec_in = [op |-> "none", msg_type |-> 0, data_id |-> 0,
                   data_value |-> 0, temperature |-> 0]
    /\ frame = [raised |-> "", msg |-> <<>>]
    /\ parsed = None

PidIdle ==
    /\ controller = None /\ pid_in = None /\ pid_out = None
    /\ pid_calls = 0 /\ pid_paths = {}

ValveIdle ==
    /\ valves = <<>> /\ calc_in = None

LinkIdle ==
    /\ link_ret = None /\ link_calls = 0 /\ stale_handles = 0

CompIdle ==
    /\ control = None
    /\ PidIdle
    /\ ValveIdle
    /\ LinkIdle

InitRooms ==
    /\ rooms \in RoomConfigs
    /\ last_op = "init"
    /\ selected = NoRoom
    /\ room_in = None
    /\ control = None
    /\ PidIdle
    /\ ValveIdle
    /\ LinkIdle
    /\ CodecIdle
    /\ AppIdle

RoomIn(room_name, temperature) ==
    [name |-> room_name, temperature |-> temperature]

\* The result of a call is held until the next call: selected and control
\* are the value the last operation returned, none after any other; room_in
\* holds the arguments of an update_room_temperature until the next call.
UpdateRoomTemperature(room_name, temperature) ==
    /\ rooms' = update_room_temperature(rooms, room_name, temperature)
    /\ last_op' = "update"
    /\ selected' = NoRoom
    /\ control' = None
    /\ room_in' = RoomIn(room_name, temperature)
    /\ UNCHANGED <<codecVars, appVars, pidVars, valveVars, linkVars>>

GetRoomWithHighestDifference ==
    /\ selected' = get_room_with_highest_difference(rooms)
    /\ last_op' = "select"
    /\ control' = None
    /\ room_in' = None
    /\ UNCHANGED <<rooms, codecVars, appVars, pidVars, valveVars, linkVars>>

GetControlTemperatures ==
    /\ control' = get_control_temperatures(rooms)
    /\ last_op' = "control"
    /\ selected' = NoRoom
    /\ room_in' = None
    /\ UNCHANGED <<rooms, codecVars, appVars, pidVars, valveVars, linkVars>>

NextRooms ==
    \/ \E nm \in RoomNames \cup {"Attic"}, t \in Currents :
          UpdateRoomTemperature(nm, t)
    \/ GetRoomWithHighestDifference
    \/ GetControlTemperatures

SpecRooms == InitRooms /\ [][NextRooms]_vars

----------------------------------------------------------------------------
(* Claims about the selection *)

\* The rooms that need heating, stated from the room fields alone.
Heat == {i \in 1..Len(rooms) :
            /\ rooms[i].current_temp # <<>>
            /\ rooms[i].current_temp[1] < rooms[i].target_temp}

Diff(i) == Abs(rooms[i].target_temp - rooms[i].current_temp[1])

\* C1: get_room_with_highest_difference returns none when no room needs
\* heating (an empty room list included); otherwise it returns a room that
\* needs heating whose |target - current| is >= that of every room that needs
\* heating.
C1_SelectionIsMaximal ==
    last_op = "select" =>
        IF Heat = {} THEN selected = NoRoom
        ELSE /\ selected \in Heat
             /\ \A j \in Heat : Diff(selected) >= Diff(j)

C1_Witness ==
    /\ last_op = "select"
    /\ selected \in Heat
    /\ \E j \in Heat : j < selected /\ Diff(j) < Diff(selected)
    /\ \E j \in 1..Len(rooms) :
          rooms[j].current_temp # <<>> /\ j \notin Heat

\* C2: when several rooms that need heating attain the maximum difference,
\* the one with the smallest index in RoomManager.rooms is returned; the
\* result is thereby a function of the room state.
C2_FirstMaximalWins ==
    (last_op = "select" /\ Heat # {}) =>
        LET best == {i \in Heat : \A j \in Heat : Diff(i) >= Diff(j)}
        IN  /\ selected \in best
            /\ \A j \in best : selected <= j

C2_Witness ==
    /\ last_op = "select"
    /\ selected \in Heat
    /\ \E j \in Heat : /\ j > selected
                       /\ Diff(j) = Diff(selected)
                       /\ rooms[j].target_temp # rooms[selected].target_temp

\* C12: get_control_temperatures returns the (target, current) pair of the
\* room get_room_with_highest_difference returns (the first room of maximal
\* difference among those that need heating) and none when no room needs
\* heating; in a returned pair the current temperature is present and below
\* the target.
C12_PairOfSelectedRoom ==
    last_op = "control" =>
        IF Heat = {} THEN control = None
        ELSE LET best == {i \in Heat : \A j \in Heat : Diff(i) >= Diff(j)}
                 r == CHOOSE i \in best : \A j \in best : i <= j
             IN  /\ r = get_room_with_highest_difference(rooms)
                 /\ rooms[r].current_temp # None
                 /\ control = <<rooms[r].target_temp, rooms[r].current_temp[1]>>
                 /\ control[2] < control[1]

\* Living 21.0/19.0 and Bedroom 20.0/19.5 yield (21.0, 19.0).
C12_Witness ==
    /\ last_op = "control"
    /\ Len(rooms) >= 2
    /\ rooms[1].name = "Living" /\ rooms[1].target_temp = 210
    /\ rooms[1].current_temp = Some(190)
    /\ rooms[2].name = "Bedroom" /\ rooms[2].target_temp = 200
    /\ rooms[2].current_temp = Some(195)
    /\ control = <<210, 190>>

\* C21: update_room_temperature(name, value): when a room has that name,
\* the current_temp of the room found (the first of that name) becomes value
\* and no field of any other room changes; when no room has that name,
\* no room's state changes.
C21_UpdateTouchesOneRoom ==
    [][last_op' = "update" =>
          /\ Len(rooms') = Len(rooms)
          /\ \A i \in 1..Len(rooms) :
                IF /\ rooms[i].name = room_in'.name
                   /\ \A j \in 1..(i - 1) : rooms[j].name # room_in'.name
                THEN rooms'[i] =
                        [rooms[i] EXCEPT
                            !.current_temp = Some(room_in'.temperature)]
                ELSE rooms'[i] = rooms[i]]_vars

C21_Witness ==
    /\ last_op = "update"
    /\ Len(rooms) >= 3
    /\ rooms[1].name = room_in.name /\ rooms[2].name = room_in.name
    /\ rooms[1].current_temp = Some(room_in.temperature)
    /\ rooms[2].current_temp = None
    /\ rooms[3].current_temp # None

----------------------------------------------------------------------------
(* OpenThermProtocol: the frame codec (opentherm.py) *)

READ_DATA == 0
WRITE_DATA == 1
STATUS == 0
TSET == 1
TBOILER == 25

MaxFrameLen == 5

SampleBytes  == {0, 1, 18, 52, 70, 255}
SampleValues == {0, 1, 215, 256, 4660, 65535}
SampleTemps  == {-5, 0, 200, 215, 655, 6553}

RECURSIVE SumBytes(_)
SumBytes(data) == IF data = <<>> THEN 0 ELSE Head(data) + SumBytes(Tail(data))

\* sum(data) & 0xFF
calculate_checksum(data) == SumBytes(data) % 256

\* What a call yields: the exception it raised ("" when it returned) and the
\* bytes it returned.
Returned(msg) == [raised |-> "", msg |-> msg]
Raised(exc)   == [raised |-> exc, msg |-> <<>>]

\* struct.pack('>H', v): two bytes, big-endian; struct.error outside 0..65535.
\* bytes([...]): ValueError unless every element is in range(0, 256).
\* (msg_type << 6) | x with x < 64, (msb << 8) | b with b < 256: the operands
\* share no bit, so the bitwise or is the sum.
create_message(msg_type, data_id, data_value) ==
    LET msb == msg_type * 64 + ((data_id \div 256) % 64)
        lsb == data_id % 256
    IN  IF data_value \notin 0..65535 THEN Raised("struct.error")
        ELSE LET data_bytes == <<data_value \div 256, data_value % 256>>
                 msb_data == msb * 256 + data_bytes[1]
                 lsb_data == lsb * 256 + data_bytes[2]
             IN  IF msb_data \notin 0..255 \/ lsb_data \notin 0..255
                 THEN Raised("ValueError")
                 ELSE Returned(<<0, msb_data, lsb_data,
                                 calculate_checksum(<<msb_data, lsb_data>>)>>)

\* The decoded triple.  msg[1], msg[2], msg[3] of the code are msg[2], msg[3],
\* msg[4] here: sequences start at 1.
decode_fields(msg) ==
    LET msb == msg[2]
        lsb == msg[3]
    IN  <<(msb \div 64) % 4,
          (msb % 64) * 256 + lsb,
          (msb % 16) * 4096 + (lsb % 256) * 16>>

parse_message_unchecked(msg) ==
    IF Len(msg) # 4 THEN None ELSE decode_fields(msg)

parse_message(msg) ==
    IF Len(msg) # 4 THEN None
    ELSE IF calculate_checksum(<<msg[2], msg[3]>>) # msg[4] THEN None
    ELSE decode_fields(msg)

\* int(temperature * 10) & 0xFFFF, the temperature given in tenths.
temp_value(temperature) == temperature % 65536

ByteSeqs == UNION {[1..n -> SampleBytes] : n \in 0..MaxFrameLen}

----------------------------------------------------------------------------
(* SpecCodec: the codec under encode, corrupt and decode *)

CodecIn(op, msg_type, data_id, data_value, temperature) ==
    [op |-> op, msg_type |-> msg_type, data_id |-> data_id,
     data_value |-> data_value, temperature |-> temperature]

\* The codec has no state of its own: the frame to decode is drawn here, as
\* any byte sequence a read of the line may hand to _parse_message.
InitCodec ==
    /\ rooms = <<>> /\ selected = NoRoom /\ room_in = None
    /\ codec_in = CodecIn("receive", 0, 0, 0, 0)
    /\ frame \in {Returned(msg) : msg \in ByteSeqs}
    /\ parsed = None
    /\ last_op = "receive"
    /\ AppIdle
    /\ CompIdle

\* _create_message(msg_type, data_id, data_value)
CreateMessage(msg_type, data_id, data_value) ==
    /\ codec_in' = CodecIn("create", msg_type, data_id, data_value, 0)
    /\ frame' = create_message(msg_type, data_id, data_value)
    /\ parsed' = None
    /\ last_op' = "create"
    /\ UNCHANGED <<rooms, selected, room_in, appVars, compVars>>

\* The encoding of set_target_temperature: the fixed-point value, then the
\* write-request for TSET.
EncodeTset(temperature) ==
    /\ codec_in' = CodecIn("tset", WRITE_DATA, TSET, temp_value(temperature),
                           temperature)
    /\ frame' = create_message(WRITE_DATA, TSET, temp_value(temperature))
    /\ parsed' = None
    /\ last_op' = "create"
    /\ UNCHANGED <<rooms, selected, room_in, appVars, compVars>>

\* Only the checksum byte of a frame that decoded is changed.
CorruptChecksum(b) ==
    /\ last_op = "parse" /\ parsed # None
    /\ b # frame.msg[4]
    /\ codec_in' = [codec_in EXCEPT !.op = "corrupt"]
    /\ frame' = [frame EXCEPT !.msg[4] = b]
    /\ parsed' = None
    /\ last_op' = "corrupt"
    /\ UNCHANGED <<rooms, selected, room_in, appVars, compVars>>

\* _parse_message(frame), when there is a frame.
ParseMessage ==
    /\ last_op \in {"create", "receive", "corrupt"}
    /\ frame.raised = ""
    /\ parsed' = parse_message(frame.msg)
    /\ last_op' = "parse"
    /\ UNCHANGED <<rooms, selected, room_in, codec_in, frame, appVars,
                   compVars>>

NextCodec ==
    \/ \E mt \in {READ_DATA, WRITE_DATA}, id \in {STATUS, TSET, TBOILER},
          v \in SampleValues : CreateMessage(mt, id, v)
    \/ \E t \in SampleTemps : EncodeTset(t)
    \/ /\ Len(frame.msg) = 4
       /\ \E b \in SampleBytes \cup {(frame.msg[4] + 1) % 256} :
             CorruptChecksum(b)
    \/ ParseMessage

SpecCodec == InitCodec /\ [][NextCodec]_vars

----------------------------------------------------------------------------
(* Claims about the codec *)

\* C5: for every temperature at 0.1 resolution, encoding a write-request for
\* TSET and decoding the resulting frame succeeds and the decoded data value,
\* shifted right by 4, is within one tenth of the temperature.
C5_TsetRoundTrip ==
    codec_in.op = "tset" =>
        /\ frame.raised = ""
        /\ last_op = "parse" =>
              /\ parsed # None
              /\ Abs((parsed[3] \div 16) - codec_in.temperature) <= 1

\* C6: _parse_message returns no result for a byte sequence whose length is
\* not 4 and for a 4-byte frame whose byte 3 differs from
\* (byte 1 + byte 2) & 0xFF; changing only the checksum byte of a frame that
\* decodes makes decoding fail.
C6_ParseRejects ==
    last_op = "parse" =>
        /\ Len(frame.msg) # 4 => parsed = None
        /\ (Len(frame.msg) = 4
              /\ frame.msg[4] # (frame.msg[2] + frame.msg[3]) % 256)
           => parsed = None
        /\ codec_in.op = "corrupt" => parsed = None

C6_Witness ==
    /\ last_op = "parse"
    /\ codec_in.op = "corrupt"
    /\ codec_in.msg_type = READ_DATA /\ codec_in.data_value = 4660
    /\ parsed = None

----------------------------------------------------------------------------
(* OpenThermProtocol / OpenThermController: the boiler link (opentherm.py) *)

\* What serial.read(4) may yield: up to 4 bytes, or an I/O error.
Replies ==
    {Returned(<<>>), Returned(<<0, 0>>), Returned(<<0, 18, 52, 70>>),
     Returned(<<0, 18, 52, 71>>), Raised("SerialException")}

\* What a call on the link did: the exception it raised ("" when it
\* returned), the value it returned, the frames it wrote, its reads.
LinkCall(raised, value, writes, reads) ==
    [raised |-> raised, value |-> value, writes |-> writes, reads |-> reads]

\* write_ok and reply are the line's answers to serial.write and
\* serial.read(4).
set_target_temperature(ser, temperature, write_ok, reply) ==
    IF ser # "open" THEN LinkCall("ConnectionError", FALSE, <<>>, 0)
    ELSE LET msg == create_message(WRITE_DATA, TSET, temp_value(temperature))
         IN  IF msg.raised # "" THEN LinkCall(msg.raised, FALSE, <<>>, 0)
             ELSE IF ~write_ok
                  THEN LinkCall("SerialException", FALSE, <<msg.msg>>, 0)
             ELSE IF reply.raised # ""
                  THEN LinkCall(reply.raised, FALSE, <<msg.msg>>, 1)
             ELSE IF reply.msg # <<>> /\ parse_message(reply.msg) # None
                  THEN LinkCall("", TRUE, <<msg.msg>>, 1)
             ELSE LinkCall("", FALSE, <<msg.msg>>, 1)

set_control_temperature_unguarded(conn, ser, target_temp, current_temp, write_ok, reply) ==
    set_target_temperature(ser, target_temp, write_ok, reply)

set_control_temperature(conn, ser, target_temp, current_temp, write_ok, reply) ==
    IF ~conn THEN LinkCall("", FALSE, <<>>, 0)
    ELSE set_target_temperature(ser, target_temp, write_ok, reply)

\* bool(data_value & mask), mask a power of two.
Flag(data_value, mask) == (data_value \div mask) % 2 = 1

\* The dict get_status builds from a data value.
StatusFlags(data_value) ==
    [ch_enabled |-> Flag(data_value, 1), dhw_enabled |-> Flag(data_value, 2),
     cooling_enabled |-> Flag(data_value, 4),
     otc_active |-> Flag(data_value, 8),
     ch2_enabled |-> Flag(data_value, 16), fault |-> Flag(data_value, 128)]

\* get_boiler_temperature; the temperature it returns is in tenths:
\* (data_value >> 4) / 10.0.
get_boiler_temperature(ser, write_ok, reply) ==
    IF ser # "open" THEN LinkCall("ConnectionError", None, <<>>, 0)
    ELSE LET msg == create_message(READ_DATA, TBOILER, 0)
         IN  IF msg.raised # "" THEN LinkCall(msg.raised, None, <<>>, 0)
             ELSE IF ~write_ok
                  THEN LinkCall("SerialException", None, <<msg.msg>>, 0)
             ELSE IF reply.raised # ""
                  THEN LinkCall(reply.raised, None, <<msg.msg>>, 1)
             ELSE LET parsed_reply == IF reply.msg # <<>>
                                      THEN parse_message(reply.msg) ELSE None
                  IN  IF parsed_reply # None /\ parsed_reply[2] = TBOILER
                      THEN LinkCall("", Some(parsed_reply[3] \div 16),
                                    <<msg.msg>>, 1)
                      ELSE LinkCall("", None, <<msg.msg>>, 1)

get_status_any_id(ser, write_ok, reply) ==
    IF ser # "open" THEN LinkCall("ConnectionError", None, <<>>, 0)
    ELSE LET msg == create_message(READ_DATA, STATUS, 0)
             parsed_reply == IF reply.raised = "" /\ reply.msg # <<>>
                             THEN parse_message(reply.msg) ELSE None
         IN  IF msg.raised # "" \/ ~write_ok \/ reply.raised # ""
             THEN LinkCall("SerialException", None, <<>>, 0)
             ELSE IF parsed_reply # None
                  THEN LinkCall("", Some(StatusFlags(parsed_reply[3])),
                                <<msg.msg>>, 1)
                  ELSE LinkCall("", None, <<msg.msg>>, 1)

\* get_status
get_status(ser, write_ok, reply) ==
    IF ser # "open" THEN LinkCall("ConnectionError", None, <<>>, 0)
    ELSE LET msg == create_message(READ_DATA, STATUS, 0)
         IN  IF msg.raised # "" THEN LinkCall(msg.raised, None, <<>>, 0)
             ELSE IF ~write_ok
                  THEN LinkCall("SerialException", None, <<msg.msg>>, 0)
             ELSE IF reply.raised # ""
                  THEN LinkCall(reply.raised, None, <<msg.msg>>, 1)
             ELSE LET parsed_reply == IF reply.msg # <<>>
                                      THEN parse_message(reply.msg) ELSE None
                  IN  IF parsed_reply # None /\ parsed_reply[2] = STATUS
                      THEN LinkCall("", Some(StatusFlags(parsed_reply[3])),
                                    <<msg.msg>>, 1)
                      ELSE LinkCall("", None, <<msg.msg>>, 1)

\* OpenThermController.get_boiler_status: the temperature query, then the
\* status query; an exception of either leaves the call at once.
get_boiler_status(conn, ser, write_ok, reply, write_ok2, reply2) ==
    IF ~conn THEN LinkCall("", None, <<>>, 0)
    ELSE LET temp == get_boiler_temperature(ser, write_ok, reply)
         IN  IF temp.raised # "" THEN temp
             ELSE LET status == get_status(ser, write_ok2, reply2)
                  IN  IF status.raised # ""
                      THEN LinkCall(status.raised, None,
                                    temp.writes \o status.writes,
                                    temp.reads + status.reads)
                      ELSE LinkCall("",
                               IF status.value = None THEN None
                               ELSE Some([status |-> status.value[1],
                                          temperature |-> temp.value]),
                               temp.writes \o status.writes,
                               temp.reads + status.reads)

opentherm_start_raising(ser, open_ok) ==
    IF open_ok THEN [connected |-> TRUE, serial |-> "open", raised |-> ""]
    ELSE [connected |-> FALSE, serial |-> ser, raised |-> "SerialException"]

opentherm_start_optimistic(ser, open_ok) ==
    [connected |-> TRUE, serial |-> IF open_ok THEN "open" ELSE ser,
     raised |-> ""]

\* OpenThermController.start: connect() binds protocol.serial to the port
\* it opened, or raises and leaves protocol.serial as it was (ser); start
\* catches what connect raises.
opentherm_start(ser, open_ok) ==
    IF open_ok THEN [connected |-> TRUE, serial |-> "open", raised |-> ""]
    ELSE [connected |-> FALSE, serial |-> ser, raised |-> ""]

\* connect() assigns protocol.serial only after serial.Serial(...) returned:
\* a handle that was bound and open is then no longer referenced, and
\* nothing has closed it.  Its finalizer may close it (collected) or it
\* stays open; the result is the number of such handles left open.
connect_rebinds(stale, ser, open_ok, collected) ==
    IF open_ok /\ ser = "open" /\ ~collected THEN stale + 1 ELSE stale

opentherm_stop_unguarded(conn, ser) ==
    [connected |-> FALSE, serial |-> "closed"]

\* OpenThermController.stop with OpenThermProtocol.disconnect.
opentherm_stop(conn, ser) ==
    IF conn THEN [connected |-> FALSE,
                  serial |-> IF ser = "open" THEN "closed" ELSE ser]
    ELSE [connected |-> conn, serial |-> ser]

----------------------------------------------------------------------------
(* HomeAssistantAPI / MultiRoomThermostat (ha_integration.py, main.py) *)

AppCurrents == {190, 210}

single_room_keep_first(rs, i, temp) ==
    IF temp # None /\ rs[i].current_temp = None
    THEN update_room_temperature(rs, rs[i].name, temp[1])
    ELSE rs

\* _update_single_room for the room at index i: temp is what get_temperature
\* returned, None when the fetch or the parse of its state failed.
update_single_room(rs, i, temp) ==
    IF temp # None THEN update_room_temperature(rs, rs[i].name, temp[1])
    ELSE rs

\* update_room_temperatures: one _update_single_room per room.  Each writes
\* the room of its own name, so the order the gathered tasks finish in does
\* not matter when the names differ.
RECURSIVE update_room_temperatures(_, _, _)
update_room_temperatures(rs, temps, i) ==
    IF i > Len(rs) THEN rs
    ELSE update_room_temperatures(update_single_room(rs, i, temps[i]), temps, i + 1)

\* The rooms _update_hrv_valves hands to calculate_hrv_positions.
rooms_to_calculate(rs) ==
    {i \in 1..Len(rs) : rs[i].current_temp # None}

\* update_valve_positions: one set_valve_position per valve of every room;
\* set_valve_position catches what its request raises.
RECURSIVE valve_position_writes(_, _)
valve_position_writes(rs, i) ==
    IF i > Len(rs) THEN 0
    ELSE rs[i].hrv_valves + valve_position_writes(rs, i + 1)

next_step_valves_first(step) ==
    CASE step = "intake"  -> "valves"
      [] step = "valves"  -> "boiler"
      [] step = "boiler"  -> "devices"
      [] step = "devices" -> "sleep"

\* The order of the awaits in the try block of _main_loop.
next_step(step) ==
    CASE step = "intake"  -> "boiler"
      [] step = "boiler"  -> "valves"
      [] step = "valves"  -> "devices"
      [] step = "devices" -> "sleep"

LoopPcs == {"loop", "intake", "boiler", "valves", "devices", "sleep", "except"}

Init ==
    /\ rooms \in AppConfigs
    /\ last_op = "init" /\ selected = NoRoom /\ room_in = None
    /\ CodecIdle
    /\ CompIdle
    /\ pc = "start" /\ running = FALSE /\ cycle = 0
    /\ connected = FALSE /\ serial = "none" /\ session = "none"
    /\ central \in BOOLEAN
    /\ steps = <<>> /\ boiler = NoBoiler
    /\ fetched = [i \in 1..Len(rooms) |-> None]
    /\ valves_calculated = {} /\ valve_writes = 0 /\ failures = 0

\* start(), up to the call of _main_loop.  A failure of ha_api.start() is the
\* fatal error: start's except clause logs it and its finally clause shuts
\* down.
Start(ha_ok, open_ok) ==
    /\ pc = "start"
    /\ IF ~ha_ok
       THEN /\ pc' = "shutdown"
            /\ UNCHANGED <<running, connected, serial, session>>
       ELSE LET ot == opentherm_start(serial, open_ok)
            IN  /\ session' = "open"
                /\ connected' = ot.connected
                /\ serial' = ot.serial
                /\ IF ot.raised # ""
                   THEN pc' = "shutdown" /\ UNCHANGED running
                   ELSE pc' = "loop" /\ running' = TRUE
    /\ UNCHANGED <<roomVars, codecVars, compVars, cycle, central, steps, boiler, fetched,
                   valves_calculated, valve_writes, failures>>

\* _signal_handler
SignalHandlerPreempt ==
    /\ running
    /\ running' = FALSE
    /\ pc' = IF pc \in LoopPcs THEN "shutdown" ELSE pc
    /\ UNCHANGED <<roomVars, codecVars, compVars, cycle, connected, serial,
                   session, central, steps, boiler, fetched,
                   valves_calculated, valve_writes, failures>>

SignalHandler ==
    /\ running
    /\ running' = FALSE
    /\ UNCHANGED <<roomVars, codecVars, compVars, pc, cycle, connected, serial, session,
                   central, steps, boiler, fetched, valves_calculated,
                   valve_writes, failures>>

\* while self.running: a cycle begins, or the loop exits.
LoopCondition ==
    /\ pc = "loop"
    /\ IF running
       THEN /\ cycle < MaxCycles
            /\ cycle' = cycle + 1
            /\ pc' = "intake"
            /\ steps' = <<>>
            /\ boiler' = NoBoiler
            /\ fetched' = [i \in 1..Len(rooms) |-> None]
            /\ valves_calculated' = {}
            /\ valve_writes' = 0
       ELSE /\ pc' = "shutdown"
            /\ UNCHANGED <<cycle, steps, boiler, fetched, valves_calculated,
                           valve_writes>>
    /\ UNCHANGED <<roomVars, codecVars, compVars, running, connected, serial, session,
                   central, failures>>

\* _update_temperatures
UpdateTemperatures(temps) ==
    /\ pc = "intake"
    /\ rooms' = update_room_temperatures(rooms, temps, 1)
    /\ fetched' = temps
    /\ steps' = Append(steps, "intake")
    /\ pc' = next_step("intake")
    /\ UNCHANGED <<last_op, selected, room_in, codecVars, compVars, running, cycle, connected,
                   serial, session, central, boiler, valves_calculated,
                   valve_writes, failures>>

\* _update_boiler_control
UpdateBoilerControl(write_ok, reply) ==
    /\ pc = "boiler"
    /\ LET temps == get_control_temperatures(rooms)
           room  == get_room_with_highest_difference(rooms)
           ot    == IF temps # None /\ connected
                    THEN set_control_temperature(connected, serial, temps[1],
                                                 temps[2], write_ok, reply)
                    ELSE LinkCall("", FALSE, <<>>, 0)
       IN  /\ boiler' = [temps |-> temps,
                         room |-> IF temps # None THEN room ELSE NoRoom,
                         after |-> steps,
                         called |-> temps # None /\ connected,
                         raised |-> ot.raised,
                         value |-> ot.value,
                         writes |-> ot.writes,
                         reads |-> ot.reads,
                         reply |-> IF ot.reads > 0 THEN reply.msg ELSE <<>>,
                         thermostat |-> temps # None /\ ot.raised = "" /\ central]
           /\ IF ot.raised # ""
              THEN /\ pc' = "except"
                   /\ failures' = failures + 1
                   /\ UNCHANGED steps
              ELSE /\ pc' = next_step("boiler")
                   /\ steps' = Append(steps, "boiler")
                   /\ UNCHANGED failures
    /\ UNCHANGED <<roomVars, codecVars, compVars, running, cycle, connected, serial,
                   session, central, fetched, valves_calculated, valve_writes>>

\* _update_hrv_valves
UpdateHrvValves ==
    /\ pc = "valves"
    /\ valves_calculated' = rooms_to_calculate(rooms)
    /\ valve_writes' = valve_position_writes(rooms, 1)
    /\ steps' = Append(steps, "valves")
    /\ pc' = next_step("valves")
    /\ UNCHANGED <<roomVars, codecVars, compVars, running, cycle, connected, serial,
                   session, central, boiler, fetched, failures>>

\* _update_hrv_devices: one set_hrv_mode per room with an hrv_entity;
\* set_hrv_mode catches what its requests raise.
UpdateHrvDevices ==
    /\ pc = "devices"
    /\ steps' = Append(steps, "devices")
    /\ pc' = next_step("devices")
    /\ UNCHANGED <<roomVars, codecVars, compVars, running, cycle, connected, serial,
                   session, central, boiler, fetched, valves_calculated,
                   valve_writes, failures>>

\* await asyncio.sleep(self.update_interval), at the end of the try block
Sleep ==
    /\ pc = "sleep"
    /\ pc' = "loop"
    /\ UNCHANGED <<roomVars, codecVars, compVars, running, cycle, connected, serial,
                   session, central, steps, boiler, fetched, valves_calculated,
                   valve_writes, failures>>

ExceptExit ==
    /\ pc = "except"
    /\ pc' = "shutdown"
    /\ UNCHANGED <<roomVars, codecVars, compVars, running, cycle, connected, serial,
                   session, central, steps, boiler, fetched, valves_calculated,
                   valve_writes, failures>>

\* except Exception: log, then await asyncio.sleep(self.update_interval)
ExceptSleep ==
    /\ pc = "except"
    /\ pc' = "loop"
    /\ UNCHANGED <<roomVars, codecVars, compVars, running, cycle, connected, serial,
                   session, central, steps, boiler, fetched, valves_calculated,
                   valve_writes, failures>>

\* shutdown(), from the finally clause of start()
Shutdown ==
    /\ pc = "shutdown"
    /\ running' = FALSE
    /\ LET ot == opentherm_stop(connected, serial)
       IN  connected' = ot.connected /\ serial' = ot.serial
    /\ session' = IF session = "open" THEN "closed" ELSE session
    /\ pc' = "done"
    /\ UNCHANGED <<roomVars, codecVars, compVars, cycle, central, steps, boiler, fetched,
                   valves_calculated, valve_writes, failures>>

Next ==
    \/ \E ha_ok \in BOOLEAN, open_ok \in BOOLEAN : Start(ha_ok, open_ok)
    \/ SignalHandler
    \/ LoopCondition
    \/ \E temps \in [1..Len(rooms) -> {None} \cup {Some(t) : t \in AppCurrents}] :
          UpdateTemperatures(temps)
    \/ \E write_ok \in BOOLEAN, reply \in Replies :
          UpdateBoilerControl(write_ok, reply)
    \/ UpdateHrvValves
    \/ UpdateHrvDevices
    \/ Sleep
    \/ ExceptSleep
    \/ Shutdown

Spec == Init /\ [][Next]_vars

\* The steps of the start() coroutine.  The event loop runs it on: every
\* await of a step returns (requests and serial reads have timeouts, the
\* sleep is finite), so a step that stays possible is taken.  Signals owe
\* nothing.
Progress ==
    \/ \E ha_ok \in BOOLEAN, open_ok \in BOOLEAN : Start(ha_ok, open_ok)
    \/ LoopCondition
    \/ \E temps \in [1..Len(rooms) -> {None} \cup {Some(t) : t \in AppCurrents}] :
          UpdateTemperatures(temps)
    \/ \E write_ok \in BOOLEAN, reply \in Replies :
          UpdateBoilerControl(write_ok, reply)
    \/ UpdateHrvValves
    \/ UpdateHrvDevices
    \/ Sleep
    \/ ExceptSleep
    \/ Shutdown

\* The same application with at most one room: the way out of the loop
\* does not depend on the rooms.
InitFair == Init /\ Len(rooms) <= 1

SpecFair == InitFair /\ [][Next]_vars /\ WF_vars(Progress)

----------------------------------------------------------------------------
(* Claims about the main loop *)

InSeq(x, sq) == \E k \in 1..Len(sq) : sq[k] = x

IsPrefix(sq, full) ==
    /\ Len(sq) <= Len(full)
    /\ \A k \in 1..Len(sq) : sq[k] = full[k]

\* A boiler command went out in the cycle: a call of set_control_temperature
\* or a setpoint for the central thermostat.
BoilerIssued == boiler.called \/ boiler.thermostat

Present == {i \in 1..Len(rooms) : rooms[i].current_temp # <<>>}

RECURSIVE TotalValves(_)
TotalValves(i) == IF i = 0 THEN 0 ELSE rooms[i].hrv_valves + TotalValves(i - 1)

C7_SetTemperatureNeverRaises ==
    boiler.called =>
        /\ boiler.raised = ""
        /\ Len(boiler.writes) = 1
        /\ boiler.reads = 1
        /\ boiler.value <=>
              /\ Len(boiler.reply) = 4
              /\ boiler.reply[4] = (boiler.reply[2] + boiler.reply[3]) % 256

\* C8: in a cycle in which the boiler command fails, the valve positions of
\* the rooms with a present temperature are still calculated and written.
C8_ValvesDespiteBoilerFailure ==
    (boiler.called /\ (boiler.raised # "" \/ ~boiler.value)
       /\ pc \in {"except", "sleep", "loop"})
    => /\ InSeq("valves", steps)
       /\ valves_calculated = Present
       /\ valve_writes = TotalValves(Len(rooms))

\* C9: what a cycle raises is caught by the loop's except clause; from there
\* the loop waits and returns to its condition, a new cycle starts with the
\* intake, and the loop is left only from its condition with the running flag
\* false.
C9_FailuresCaught ==
    [][ /\ (pc = "boiler" /\ boiler'.raised # "") => pc' = "except"
        /\ pc = "except" => pc' \in {"except", "loop"}
        /\ (pc \in LoopPcs /\ pc' \notin LoopPcs)
              => (pc = "loop" /\ ~running /\ pc' = "shutdown")
        /\ (pc = "loop" /\ pc' \in LoopPcs \ {"loop"})
              => (running /\ pc' = "intake" /\ steps' = <<>>) ]_vars

C9_Witness ==
    /\ failures >= 1
    /\ pc = "sleep"
    /\ InSeq("devices", steps)

\* C10: when opening the boiler link fails at startup, the application still
\* enters the main loop, no cycle fails, and every cycle calculates the valve
\* positions of every room with a present temperature and writes the valve
\* positions.
C10_ValvesWithoutBoilerLink ==
    /\ [][(pc = "start" /\ session' = "open" /\ serial' = "none")
             => (pc' = "loop" /\ running')]_vars
    /\ []((pc \in LoopPcs /\ serial = "none") =>
            /\ pc # "except" /\ failures = 0
            /\ pc \in {"devices", "sleep"} => InSeq("valves", steps)
            /\ InSeq("valves", steps) =>
                  /\ valves_calculated = Present
                  /\ valve_writes = TotalValves(Len(rooms)))

C10_Witness ==
    /\ serial = "none"
    /\ cycle = 2
    /\ pc = "sleep"
    /\ valves_calculated # {}
    /\ valve_writes > 0

\* C11: in every cycle in which no room needs heating, the selection yields
\* none and the boiler step issues no command: it does not call the link, no
\* frame is written to the serial line and no setpoint is sent to the
\* central thermostat.
C11_NoCommandWithoutDemand ==
    (boiler.after # <<>> /\ Heat = {}) =>
        /\ boiler.temps = None
        /\ boiler.room = NoRoom
        /\ ~boiler.called
        /\ boiler.writes = <<>>
        /\ ~boiler.thermostat

C11_Witness ==
    /\ boiler.after # <<>> /\ Heat = {}
    /\ connected /\ central
    /\ \E i \in 1..Len(rooms) : rooms[i].current_temp # None
    /\ ~BoilerIssued

----------------------------------------------------------------------------
(* Numbers of the controller: exact rationals *)

\* A float of the code is a rational <<n, d>> in lowest terms with d > 0:
\* the arithmetic of the controller is modelled exactly, without rounding.
RECURSIVE GCD(_, _)
GCD(a, b) == IF b = 0 THEN a ELSE GCD(b, a % b)

Frac(n, d) ==
    LET g == GCD(Abs(n), Abs(d))
        sgn == IF d < 0 THEN -1 ELSE 1
    IN  <<(sgn * n) \div g, (sgn * d) \div g>>

Num(n) == <<n, 1>>

RAdd(a, b) == Frac(a[1] * b[2] + b[1] * a[2], a[2] * b[2])
RSub(a, b) == Frac(a[1] * b[2] - b[1] * a[2], a[2] * b[2])
RMul(a, b) == Frac(a[1] * b[1], a[2] * b[2])
RDiv(a, b) == Frac(a[1] * b[2], a[2] * b[1])
RLt(a, b)  == a[1] * b[2] < b[1] * a[2]
RLe(a, b)  == a[1] * b[2] <= b[1] * a[2]

\* max(a, b) and min(a, b) of Python: the first argument unless the second
\* is strictly greater (smaller).
max(a, b) == IF RLt(a, b) THEN b ELSE a
min(a, b) == IF RLt(b, a) THEN b ELSE a

\* A temperature of the model (tenths of a degree) as the float it stands for.
Degrees(tenths) == Frac(tenths, 10)

----------------------------------------------------------------------------
(* PIDController (pid_controller.py) *)

\* __init__
PIDController(kp, ki, kd, setpoint, output_limits) ==
    [kp |-> kp, ki |-> ki, kd |-> kd, setpoint |-> setpoint,
     output_limits |-> output_limits,
     last_time |-> None, last_error |-> None, integral |-> Num(0)]

set_setpoint_keep_integral(pid, setpoint) ==
    [pid EXCEPT !.setpoint = setpoint]

set_setpoint(pid, setpoint) ==
    [pid EXCEPT !.setpoint = setpoint, !.integral = Num(0)]

clamp_output_unclamped(pid, output) == output

\* _clamp_output
clamp_output(pid, output) ==
    max(pid.output_limits[1], min(pid.output_limits[2], output))

\* What update returns and the controller it leaves, with the path taken.
Updated(pid, out, path) == [pid |-> pid, out |-> out, path |-> path]

update_stale_error(pid, current_time, current_value) ==
    LET error == RSub(pid.setpoint, current_value)
        last == IF pid.last_error = None THEN error ELSE pid.last_error[1]
    IN  Updated([pid EXCEPT !.last_time = Some(current_time),
                            !.last_error = Some(error)],
                clamp_output(pid, RMul(pid.kp, last)),
                IF pid.last_time = None THEN "first" ELSE "full")

update_records_always(pid, current_time, current_value) ==
    LET error == RSub(pid.setpoint, current_value)
        u == update_stale_error(pid, current_time, current_value)
    IN  Updated([pid EXCEPT !.last_time = Some(current_time),
                            !.last_error = Some(error),
                            !.integral = RAdd(pid.integral, error)],
                clamp_output(pid, RMul(pid.kp, error)), u.path)

set_tunings_fresh(pid, kp, ki, kd) ==
    PIDController(kp, ki, kd, pid.setpoint, pid.output_limits)

\* update(current_value), current_time being what time.time() returns.
update(pid, current_time, current_value) ==
    LET error == RSub(pid.setpoint, current_value)
    IN  IF pid.last_time = None
        THEN Updated([pid EXCEPT !.last_time = Some(current_time),
                                 !.last_error = Some(error)],
                     clamp_output(pid, RMul(pid.kp, error)), "first")
        ELSE LET dt == RSub(current_time, pid.last_time[1])
             IN  IF RLe(dt, Num(0))
                 THEN Updated(pid, clamp_output(pid, RMul(pid.kp, error)),
                              "no_dt")
                 ELSE LET p_term == RMul(pid.kp, error)
                          integral == RAdd(pid.integral, RMul(error, dt))
                          i_term == RMul(pid.ki, integral)
                          error_delta == RSub(error, pid.last_error[1])
                          d_term == RMul(pid.kd, RDiv(error_delta, dt))
                          output == RAdd(RAdd(p_term, i_term), d_term)
                      IN  Updated([pid EXCEPT
                                      !.integral = integral,
                                      !.last_time = Some(current_time),
                                      !.last_error = Some(error)],
                                  clamp_output(pid, output), "full")

\* reset
reset(pid) ==
    [pid EXCEPT !.last_time = None, !.last_error = None,
                !.integral = Num(0)]

\* set_tunings
set_tunings(pid, kp, ki, kd) ==
    [pid EXCEPT !.kp = kp, !.ki = ki, !.kd = kd]

----------------------------------------------------------------------------
(* SpecPid: one PIDController under its callers' operations *)

MaxUpdates == 3

\* Gains, limits, setpoints, measurements and clock readings of the model.
\* The clock is time.time(): nothing makes two readings increase.
PidGains ==
    {<<Num(1), Frac(1, 10), Frac(1, 20)>>, <<Num(1), Num(0), Num(0)>>,
     <<Num(-2), Num(3), Num(5)>>}
PidLimits == {<<Num(0), Num(100)>>, <<Num(-5), Num(5)>>}
PidSetpoints == {Num(0), Num(20)}
PidValues == {Num(-200), Num(-5), Num(25)}
PidTimes == {Num(0), Num(1), Frac(5, 2)}

\* The last call: its name, the clock reading and the argument it got, and
\* the integral and the gains it found.
PidIn(op, time, value) ==
    [op |-> op, time |-> time, value |-> value,
     integral |-> IF op = "init" THEN Num(0) ELSE controller.integral,
     gains |-> IF op = "init" THEN <<>>
               ELSE <<controller.kp, controller.ki, controller.kd>>]

InitPid ==
    /\ \E g \in PidGains, l \in PidLimits :
          controller = PIDController(g[1], g[2], g[3], Num(0), l)
    /\ pid_in = PidIn("init", Num(0), Num(0))
    /\ pid_out = None
    /\ pid_calls = 0
    /\ pid_paths = {}
    /\ rooms = <<>> /\ last_op = "init" /\ selected = NoRoom
    /\ room_in = None
    /\ control = None
    /\ ValveIdle
    /\ LinkIdle
    /\ CodecIdle
    /\ AppIdle

PidUpdate(current_time, current_value) ==
    /\ pid_calls < MaxUpdates
    /\ LET u == update(controller, current_time, current_value)
       IN  /\ controller' = u.pid
           /\ pid_out' = Some(u.out)
           /\ pid_paths' = pid_paths \cup {u.path}
    /\ pid_in' = PidIn("update", current_time, current_value)
    /\ pid_calls' = pid_calls + 1
    /\ UNCHANGED <<roomVars, codecVars, appVars, control, valveVars,
                   linkVars>>

PidSetSetpoint(setpoint) ==
    /\ controller' = set_setpoint(controller, setpoint)
    /\ pid_in' = PidIn("set_setpoint", Num(0), setpoint)
    /\ UNCHANGED <<roomVars, codecVars, appVars, control, valveVars, linkVars,
                   pid_out, pid_calls, pid_paths>>

PidReset ==
    /\ controller' = reset(controller)
    /\ pid_in' = PidIn("reset", Num(0), Num(0))
    /\ UNCHANGED <<roomVars, codecVars, appVars, control, valveVars, linkVars,
                   pid_out, pid_calls, pid_paths>>

PidSetTunings(kp, ki, kd) ==
    /\ controller' = set_tunings(controller, kp, ki, kd)
    /\ pid_in' = PidIn("set_tunings", Num(0), <<kp, ki, kd>>)
    /\ UNCHANGED <<roomVars, codecVars, appVars, control, valveVars, linkVars,
                   pid_out, pid_calls, pid_paths>>

NextPid ==
    \/ \E t \in PidTimes, v \in PidValues : PidUpdate(t, v)
    \/ \E v \in PidSetpoints : PidSetSetpoint(v)
    \/ PidReset
    \/ \E g \in PidGains : PidSetTunings(g[1], g[2], g[3])

SpecPid == InitPid /\ [][NextPid]_vars

PidLo == controller.output_limits[1]
PidHi == controller.output_limits[2]

\* C15: PIDController.update returns a value out with
\* output_limits[0] <= out <= output_limits[1] on each of its three paths
\* (first call, non-positive time step, positive time step), whatever the
\* gains, the accumulated integral and the last error.
C15_OutputWithinLimits ==
    pid_in.op = "update" =>
        /\ RLe(PidLo, pid_out[1])
        /\ RLe(pid_out[1], PidHi)

C15_Witness ==
    /\ pid_in.op = "update"
    /\ pid_paths = {"first", "no_dt", "full"}
    /\ pid_in.integral # Num(0)
    /\ pid_out = Some(PidHi)

\* C16: with ki = 0 and kd = 0, every update, after any sequence of updates
\* at any clock readings and of set_setpoint calls, returns exactly
\* kp * (setpoint - measurement) clamped to the output limits; with kp = 1
\* and setpoint 0 a measurement of -5 returns 5.
C16_ProportionalOnly ==
    (pid_in.op = "update" /\ controller.ki = Num(0)
        /\ controller.kd = Num(0)) =>
        LET p == RMul(controller.kp,
                      RSub(controller.setpoint, pid_in.value))
        IN  pid_out = Some(IF RLt(p, PidLo) THEN PidLo
                           ELSE IF RLt(PidHi, p) THEN PidHi ELSE p)

C16_Witness ==
    /\ pid_in.op = "update"
    /\ controller.kp = Num(1)
    /\ controller.ki = Num(0) /\ controller.kd = Num(0)
    /\ controller.setpoint = Num(0)
    /\ pid_in.value = Num(-5)
    /\ pid_out = Some(Num(5))
    /\ pid_calls >= 2
    /\ controller.integral # pid_in.integral

\* C17: after set_setpoint(v) the setpoint is v and the accumulated integral
\* is 0, whatever the integral was before the call.
C17_SetpointResetsIntegral ==
    pid_in.op = "set_setpoint" =>
        /\ controller.setpoint = pid_in.value
        /\ controller.integral = Num(0)

C17_Witness ==
    /\ pid_in.op = "set_setpoint"
    /\ pid_in.integral # Num(0)
    /\ controller.integral = Num(0)
    /\ controller.setpoint = Num(20)

\* C25: whenever update takes a proportional-only path it returns
\* kp * error clamped to the output limits and leaves the integral as it
\* was: on the first call (no last_time) it records last_time and last_error
\* and nothing else, and on a later call whose time step is not positive it
\* leaves the whole controller, last_time, last_error and integral included,
\* unchanged.
C25_ProportionalPathFrame ==
    [][pid_calls' = pid_calls + 1 =>
          LET error == RSub(controller.setpoint, pid_in'.value)
              p == RMul(controller.kp, error)
              clamped == IF RLt(p, PidLo) THEN PidLo
                         ELSE IF RLt(PidHi, p) THEN PidHi ELSE p
          IN  IF controller.last_time = None
              THEN /\ pid_out' = Some(clamped)
                   /\ controller' =
                         [controller EXCEPT
                             !.last_time = Some(pid_in'.time),
                             !.last_error = Some(error)]
              ELSE RLe(RSub(pid_in'.time, controller.last_time[1]), Num(0))
                      => /\ pid_out' = Some(clamped)
                         /\ controller' = controller]_vars

\* The last update came at a clock reading before the recorded one, with an
\* integral and a last error from earlier updates.
C25_Witness ==
    /\ pid_in.op = "update"
    /\ pid_calls = MaxUpdates
    /\ controller.last_time # None
    /\ RLt(pid_in.time, controller.last_time[1])
    /\ controller.integral # Num(0)
    /\ controller.integral = pid_in.integral
    /\ controller.last_error # Some(RSub(controller.setpoint, pid_in.value))
    /\ pid_out # Some(PidLo) /\ pid_out # Some(PidHi)

\* C26: set_tunings(kp, ki, kd) replaces the three gains and leaves the
\* setpoint, the integral, the last error, the last timestamp and the output
\* limits as they were.
C26_SetTuningsFrame ==
    [][pid_in'.op = "set_tunings" =>
          /\ <<controller'.kp, controller'.ki, controller'.kd>> = pid_in'.value
          /\ controller'.setpoint = controller.setpoint
          /\ controller'.integral = controller.integral
          /\ controller'.last_error = controller.last_error
          /\ controller'.last_time = controller.last_time
          /\ controller'.output_limits = controller.output_limits]_vars

C26_Witness ==
    /\ pid_in.op = "set_tunings"
    /\ pid_in.integral # Num(0)
    /\ controller.integral = pid_in.integral
    /\ controller.setpoint = Num(20)
    /\ controller.last_time # None
    /\ controller.last_error # None
    /\ pid_in.gains[1] # pid_in.value[1]
    /\ pid_in.gains[2] # pid_in.value[2]
    /\ pid_in.gains[3] # pid_in.value[3]
    /\ <<controller.kp, controller.ki, controller.kd>> = pid_in.value

----------------------------------------------------------------------------
(* HRVValve and the valve calculation (room_manager.py) *)

\* HRVValve(...) with __post_init__: position 0.0, a controller with the
\* valve's gains, setpoint 0.0 and limits (0.0, 100.0).
HRVValve(kp, ki, kd) ==
    [kp |-> kp, ki |-> ki, kd |-> kd, current_position |-> Num(0),
     pid_controller |-> PIDController(kp, ki, kd, Num(0),
                                      <<Num(0), Num(100)>>)]

calculate_valve_raw(valve, error, current_time) ==
    [valve EXCEPT !.current_position = RMul(valve.kp, error)]

calculate_valve_keep_setpoint(valve, error, current_time) ==
    LET u == update(valve.pid_controller, current_time, RSub(Num(0), error))
    IN  [valve EXCEPT !.pid_controller = u.pid,
                      !.current_position = max(Num(0), min(Num(100), u.out))]

\* The body of the loop of calculate_hrv_positions for one valve;
\* current_time is what time.time() returns in its update.
calculate_valve(valve, error, current_time) ==
    LET pid == set_setpoint(valve.pid_controller, Num(0))
        u == update(pid, current_time, RSub(Num(0), error))
        valve_position == max(Num(0), min(Num(100), u.out))
    IN  [valve EXCEPT !.pid_controller = u.pid,
                      !.current_position = valve_position]

calculate_hrv_positions_absent_as_target(room, vs, current_time) ==
    LET error == IF room.current_temp = None THEN Num(0)
                 ELSE Degrees(room.target_temp - room.current_temp[1])
    IN  [k \in 1..Len(vs) |-> calculate_valve(vs[k], error, current_time)]

\* calculate_hrv_positions(room): vs are the room's valves.  The valves of a
\* room do not read each other's state, so what a valve can reach depends
\* only on its own sequence of errors and clock readings: the model gives
\* the updates of one call the same reading current_time.
calculate_hrv_positions(room, vs, current_time) ==
    IF room.current_temp = None THEN vs
    ELSE LET error == Degrees(room.target_temp - room.current_temp[1])
         IN  [k \in 1..Len(vs) |->
                 calculate_valve(vs[k], error, current_time)]

\* The loop of _update_hrv_valves over the rooms; times[i] is the clock
\* reading of the call for room i.
update_hrv_valves(rs, vss, times) ==
    [i \in 1..Len(rs) |->
        IF rs[i].current_temp # None
        THEN calculate_hrv_positions(rs[i], vss[i], times[i])
        ELSE vss[i]]

----------------------------------------------------------------------------
(* SpecValves: a RoomManager with its valves under its callers' operations *)

\* Gains of the model: the defaults of _load_rooms, a strong and a reversed
\* controller.  The k-th valve of room i has the gains at k + i - 1.
ValveGainSeq ==
    <<<<Num(1), Frac(1, 10), Frac(1, 20)>>, <<Num(60), Num(10), Num(5)>>,
      <<Num(-2), Num(0), Num(1)>>>>
ValveGains(i, k) == ValveGainSeq[((i + k - 2) % Len(ValveGainSeq)) + 1]
ValveTimes == {Num(0), Frac(1, 2), Num(2)}

\* _load_rooms: no room, one room or two, each with MaxValves valves.
ValveConfigs ==
    {<<>>}
    \cup {<<Room("Living", t, MaxValves)>> : t \in Targets}
    \cup {<<Room("Living", t[1], MaxValves),
            Room("Bedroom", t[2], MaxValves)>> : t \in Targets \X Targets}

LoadValves(rs) ==
    [i \in 1..Len(rs) |->
        [k \in 1..rs[i].hrv_valves |->
            HRVValve(ValveGains(i, k)[1], ValveGains(i, k)[2],
                     ValveGains(i, k)[3])]]

CalcIn(op, room) == [op |-> op, room |-> room]

InitValves ==
    /\ rooms \in ValveConfigs
    /\ valves = LoadValves(rooms)
    /\ calc_in = CalcIn("init", NoRoom)
    /\ last_op = "init" /\ selected = NoRoom /\ control = None
    /\ room_in = None
    /\ PidIdle
    /\ LinkIdle
    /\ CodecIdle
    /\ AppIdle

ValvesUpdateRoomTemperature(room_name, temperature) ==
    /\ rooms' = update_room_temperature(rooms, room_name, temperature)
    /\ last_op' = "update"
    /\ selected' = NoRoom
    /\ calc_in' = CalcIn("update", NoRoom)
    /\ UNCHANGED <<valves, control, room_in, codecVars, appVars, pidVars,
                   linkVars>>

ValvesGetRoomWithHighestDifference ==
    /\ selected' = get_room_with_highest_difference(rooms)
    /\ last_op' = "select"
    /\ calc_in' = CalcIn("select", NoRoom)
    /\ UNCHANGED <<rooms, valves, control, room_in, codecVars, appVars,
                   pidVars, linkVars>>

CalculateHrvPositions(i, current_time) ==
    /\ valves' = [valves EXCEPT
                     ![i] = calculate_hrv_positions(rooms[i], valves[i],
                                                    current_time)]
    /\ last_op' = "calculate"
    /\ selected' = NoRoom
    /\ calc_in' = CalcIn("calculate", i)
    /\ UNCHANGED <<rooms, control, room_in, codecVars, appVars, pidVars,
                   linkVars>>

\* The valve step of a cycle: _update_hrv_valves up to its Home Assistant
\* call.
ValveStep(times) ==
    /\ valves' = update_hrv_valves(rooms, valves, times)
    /\ last_op' = "valve_step"
    /\ selected' = NoRoom
    /\ calc_in' = CalcIn("valve_step", NoRoom)
    /\ UNCHANGED <<rooms, control, room_in, codecVars, appVars, pidVars,
                   linkVars>>

NextValves ==
    \/ \E nm \in {"Living", "Bedroom", "Attic"}, t \in AppCurrents :
          ValvesUpdateRoomTemperature(nm, t)
    \/ ValvesGetRoomWithHighestDifference
    \/ \E i \in 1..Len(rooms), t \in ValveTimes :
          CalculateHrvPositions(i, t)
    \/ \E times \in [1..Len(rooms) -> ValveTimes] :
          ValveStep(times)

SpecValves == InitValves /\ [][NextValves]_vars

\* C13: a room whose current temperature is absent is never returned by
\* get_room_with_highest_difference, and no step (calculate_hrv_positions on
\* that room and the valve step of a cycle included) changes the
\* current_position or the controller state of any of its valves.
C13_AbsentRoomUntouched ==
    [][/\ \A i \in 1..Len(rooms) :
             rooms[i].current_temp = None => valves'[i] = valves[i]
       /\ last_op' = "select" =>
             \/ selected' = NoRoom
             \/ rooms[selected'].current_temp # None]_vars

C13_Witness ==
    /\ calc_in.op = "calculate"
    /\ rooms[calc_in.room].current_temp = None
    /\ valves[calc_in.room] = LoadValves(rooms)[calc_in.room]
    /\ valves[calc_in.room] # <<>>
    /\ \E j \in 1..Len(rooms) :
          /\ rooms[j].current_temp # None
          /\ valves[j][1].pid_controller.last_time # None

\* C14: every valve's current_position is in [0, 100] in every reachable
\* state: at construction and after any sequence of update_room_temperature
\* and calculate_hrv_positions calls.
C14_PositionInRange ==
    \A i \in 1..Len(valves) : \A k \in 1..Len(valves[i]) :
        /\ RLe(Num(0), valves[i][k].current_position)
        /\ RLe(valves[i][k].current_position, Num(100))

C14_Witness ==
    /\ calc_in.op = "calculate"
    /\ \E i \in 1..Len(valves) : \E k \in 1..Len(valves[i]) :
          /\ valves[i][k].current_position = Num(100)
          /\ valves[i][k].pid_controller.integral # Num(0)
    /\ \E i \in 1..Len(valves) : \E k \in 1..Len(valves[i]) :
          /\ RLt(Num(0), valves[i][k].current_position)
          /\ RLt(valves[i][k].current_position, Num(100))

\* C27: calculate_hrv_positions calls set_setpoint(0.0) on a valve's
\* controller before every update, so the integral never carries over
\* between cycles: after every step a valve controller's integral is 0, or
\* it is error * dt of the most recent update alone (the update that moved
\* last_time forward by dt and recorded error), or no update touched the
\* controller in the step.
C27_IntegralOfOneUpdate ==
    [][\A i \in 1..Len(valves) : \A k \in 1..Len(valves[i]) :
          LET was == valves[i][k].pid_controller
              now == valves'[i][k].pid_controller
          IN  \/ now.integral = Num(0)
              \/ now = was
              \/ /\ was.last_time # None
                 /\ now.last_time # None
                 /\ RLt(was.last_time[1], now.last_time[1])
                 /\ now.last_error =
                       Some(Degrees(rooms[i].target_temp
                                    - rooms[i].current_temp[1]))
                 /\ now.integral =
                       RMul(now.last_error[1],
                            RSub(now.last_time[1], was.last_time[1]))]_vars

\* A valve whose controller was updated at 0, at 1/2 and at 2 with errors
\* that differ: the integral is that of the step from 1/2 to 2.
C27_Witness ==
    /\ calc_in.op = "calculate"
    /\ \E k \in 1..Len(valves[calc_in.room]) :
          LET pid == valves[calc_in.room][k].pid_controller
          IN  /\ pid.last_time = Some(Num(2))
              /\ pid.integral # Num(0)
              /\ pid.integral = RMul(pid.last_error[1], Frac(3, 2))
              /\ pid.last_error =
                    Some(Degrees(rooms[calc_in.room].target_temp
                                 - rooms[calc_in.room].current_temp[1]))

----------------------------------------------------------------------------
(* SpecLink: an OpenThermController under its callers' operations *)

MaxLinkCalls == 5

\* The last call: the operation before it, its argument and what it did.
LinkRet(prev, arg, call) == [prev |-> prev, arg |-> arg, call |-> call]

InitLink ==
    /\ connected = FALSE /\ serial = "none"
    /\ link_ret = LinkRet("init", None, LinkCall("", FALSE, <<>>, 0))
    /\ link_calls = 0
    /\ stale_handles = 0
    /\ last_op = "init"
    /\ rooms = <<>> /\ selected = NoRoom /\ control = None
    /\ room_in = None
    /\ pc = "idle" /\ running = FALSE /\ cycle = 0 /\ session = "none"
    /\ central = FALSE /\ steps = <<>> /\ boiler = NoBoiler
    /\ fetched = <<>> /\ valves_calculated = {} /\ valve_writes = 0
    /\ failures = 0
    /\ PidIdle
    /\ ValveIdle
    /\ CodecIdle

LinkUnchanged ==
    UNCHANGED <<rooms, selected, room_in, control, codecVars, pidVars,
                valveVars, pc,
                running, cycle, session, central, steps, boiler, fetched,
                valves_calculated, valve_writes, failures>>

\* OpenThermController.start
LinkStart(open_ok, collected) ==
    /\ link_calls < MaxLinkCalls
    /\ stale_handles' = connect_rebinds(stale_handles, serial, open_ok,
                                        collected)
    /\ LET ot == opentherm_start(serial, open_ok)
       IN  /\ connected' = ot.connected
           /\ serial' = ot.serial
           /\ link_ret' = LinkRet(last_op, open_ok,
                                  LinkCall(ot.raised, FALSE, <<>>, 0))
    /\ last_op' = "start"
    /\ link_calls' = link_calls + 1
    /\ LinkUnchanged

\* OpenThermController.stop
LinkStop ==
    /\ link_calls < MaxLinkCalls
    /\ LET ot == opentherm_stop(connected, serial)
       IN  connected' = ot.connected /\ serial' = ot.serial
    /\ UNCHANGED stale_handles
    /\ link_ret' = LinkRet(last_op, None, LinkCall("", FALSE, <<>>, 0))
    /\ last_op' = "stop"
    /\ link_calls' = link_calls + 1
    /\ LinkUnchanged

\* OpenThermController.set_control_temperature
LinkSetControlTemperature(target_temp, current_temp, write_ok, reply) ==
    /\ link_calls < MaxLinkCalls
    /\ link_ret' = LinkRet(last_op, target_temp,
                           set_control_temperature(connected, serial,
                               target_temp, current_temp, write_ok, reply))
    /\ last_op' = "set_control"
    /\ link_calls' = link_calls + 1
    /\ UNCHANGED <<connected, serial, stale_handles>>
    /\ LinkUnchanged

\* The boiler command of a cycle: _update_boiler_control with a control pair,
\* up to its call of the link.
LinkBoilerStep(target_temp, current_temp, write_ok, reply) ==
    /\ link_calls < MaxLinkCalls
    /\ link_ret' = LinkRet(last_op, target_temp,
                           IF connected
                           THEN set_control_temperature(connected, serial,
                                    target_temp, current_temp, write_ok,
                                    reply)
                           ELSE LinkCall("", FALSE, <<>>, 0))
    /\ last_op' = "boiler_step"
    /\ link_calls' = link_calls + 1
    /\ UNCHANGED <<connected, serial, stale_handles>>
    /\ LinkUnchanged

\* The replies a query is tried with: those above and every 4-byte frame
\* over QueryBytes, which has the bytes of the STATUS and TBOILER
\* identifiers under each message type.
QueryBytes == {0, 25, 64, 192, 255}
QueryReplies ==
    Replies \cup {Returned(msg) : msg \in [1..4 -> QueryBytes]}

\* OpenThermProtocol.get_boiler_temperature
ProtocolGetBoilerTemperature(write_ok, reply) ==
    /\ link_calls < MaxLinkCalls
    /\ link_ret' = LinkRet(last_op, None,
                           get_boiler_temperature(serial, write_ok, reply))
    /\ last_op' = "get_boiler_temperature"
    /\ link_calls' = link_calls + 1
    /\ UNCHANGED <<connected, serial, stale_handles>>
    /\ LinkUnchanged

\* OpenThermProtocol.get_status
ProtocolGetStatus(write_ok, reply) ==
    /\ link_calls < MaxLinkCalls
    /\ link_ret' = LinkRet(last_op, None,
                           get_status(serial, write_ok, reply))
    /\ last_op' = "get_status"
    /\ link_calls' = link_calls + 1
    /\ UNCHANGED <<connected, serial, stale_handles>>
    /\ LinkUnchanged

\* OpenThermController.get_boiler_status
LinkGetBoilerStatus(write_ok, reply, write_ok2, reply2) ==
    /\ link_calls < MaxLinkCalls
    /\ link_ret' = LinkRet(last_op, None,
                           get_boiler_status(connected, serial, write_ok,
                                             reply, write_ok2, reply2))
    /\ last_op' = "get_boiler_status"
    /\ link_calls' = link_calls + 1
    /\ UNCHANGED <<connected, serial, stale_handles>>
    /\ LinkUnchanged

NextLink ==
    \/ \E open_ok \in BOOLEAN, collected \in BOOLEAN :
          LinkStart(open_ok, collected)
    \/ LinkStop
    \/ \E t \in Targets, c \in AppCurrents, write_ok \in BOOLEAN,
          reply \in Replies :
          LinkSetControlTemperature(t, c, write_ok, reply)
    \/ \E t \in Targets, c \in AppCurrents, write_ok \in BOOLEAN,
          reply \in Replies :
          LinkBoilerStep(t, c, write_ok, reply)
    \/ \E write_ok \in BOOLEAN, reply \in QueryReplies :
          ProtocolGetBoilerTemperature(write_ok, reply)
    \/ \E write_ok \in BOOLEAN, reply \in QueryReplies :
          ProtocolGetStatus(write_ok, reply)
    \/ \E write_ok \in BOOLEAN, reply \in Replies, write_ok2 \in BOOLEAN,
          reply2 \in Replies :
          LinkGetBoilerStatus(write_ok, reply, write_ok2, reply2)

SpecLink == InitLink /\ [][NextLink]_vars

\* C18: OpenThermController.stop is idempotent: on a Connected link it
\* closes the serial line and leaves the link Disconnected; on a
\* Disconnected link, a link just stopped included, it changes nothing.
C18_StopIdempotent ==
    [][(last_op' = "stop" /\ link_calls' # link_calls) =>
          IF connected
          THEN connected' = FALSE /\ serial' = "closed"
          ELSE connected' = connected /\ serial' = serial]_vars

C18_Witness ==
    /\ last_op = "stop"
    /\ link_ret.prev = "stop"
    /\ connected = FALSE
    /\ serial = "closed"

\* C19: the link goes Disconnected -> Connected -> Disconnected: start()
\* leaves the link Connected exactly when the port was opened, a failed
\* start() does not raise and leaves the link Disconnected, and in every
\* reachable state connected = true implies that the protocol's serial
\* handle is open.
C19_ConnectedImpliesOpen ==
    /\ connected => serial = "open"
    /\ last_op = "start" =>
          /\ link_ret.call.raised = ""
          /\ connected = link_ret.arg
    /\ last_op = "stop" => ~connected

C19_Witness ==
    /\ last_op = "start"
    /\ link_ret.arg = FALSE
    /\ link_ret.prev = "start"
    /\ connected = FALSE
    /\ serial = "open"

\* C20: while the link is Disconnected no boiler frame is written to the
\* serial line, in the boiler step of any cycle and by
\* set_control_temperature called directly, which returns failure without
\* raising.
C20_DisconnectedWritesNothing ==
    (last_op \in {"set_control", "boiler_step"} /\ ~connected) =>
        /\ link_ret.call.writes = <<>>
        /\ link_ret.call.reads = 0
        /\ link_ret.call.raised = ""
        /\ link_ret.call.value = FALSE

C20_Witness ==
    /\ last_op = "set_control"
    /\ ~connected
    /\ serial = "open"
    /\ link_ret.call = LinkCall("", FALSE, <<>>, 0)

----------------------------------------------------------------------------
(* Shutdown of the application (main.py) *)

\* C22: a shutdown signal only clears the running flag; the cycle in flight
\* runs on, the loop is left only at its condition, and once the running
\* flag is clear the application reaches the end of shutdown(), where the
\* serial link and the HTTP session are not open; shutdown() is reached in
\* the same way when start() ends on a fatal error.
C22_SignalObservedAtLoopCondition ==
    /\ [][/\ (running /\ ~running' /\ pc # "shutdown") =>
                UNCHANGED <<pc, cycle, connected, serial, session, steps,
                            boiler, fetched, valves_calculated, valve_writes,
                            failures, rooms>>
          /\ (pc \in LoopPcs /\ pc' \notin LoopPcs) =>
                (pc = "loop" /\ ~running /\ pc' = "shutdown")
          /\ (pc \in LoopPcs \ {"loop", "sleep", "except"}) =>
                pc' \in LoopPcs \ {"loop"}]_vars
    /\ [](pc = "done" =>
             ~running /\ ~connected /\ serial # "open" /\ session # "open")
    /\ (pc \in LoopPcs /\ ~running) ~> (pc = "done")
    /\ (pc = "shutdown") ~> (pc = "done")

C22_Witness ==
    /\ pc = "valves"
    /\ ~running
    /\ cycle = 2
    /\ serial = "open" /\ connected
    /\ session = "open"

----------------------------------------------------------------------------
(* More claims about the codec and the boiler queries *)

\* C23: _create_message returns, for a read-request or a write-request, a
\* data identifier among STATUS, TSET and TBOILER and any 16-bit data value,
\* a frame of exactly 4 bytes, each in 0..255, with byte 0 = 0 and
\* byte 3 = (byte 1 + byte 2) & 0xFF.
C23_FrameWellFormed ==
    (codec_in.op = "create" /\ codec_in.data_value \in 0..65535) =>
        /\ frame.raised = ""
        /\ Len(frame.msg) = 4
        /\ \A k \in 1..Len(frame.msg) : frame.msg[k] \in 0..255
        /\ frame.msg[1] = 0
        /\ frame.msg[4] = (frame.msg[2] + frame.msg[3]) % 256

\* C24: get_boiler_temperature and get_status (and get_boiler_status over
\* them) return absent on every failure rather than raising: with the link
\* not open, on an encoding or I/O failure, an empty or short reply, a
\* checksum mismatch or a reply for another data identifier.
C24_QueriesNeverRaise ==
    last_op \in {"get_boiler_temperature", "get_status",
                 "get_boiler_status"} =>
        link_ret.call.raised = ""

\* C29: every record get_status returns has ch_enabled, dhw_enabled,
\* cooling_enabled, otc_active, ch2_enabled and fault all false, whatever
\* the reply frame.
C29_StatusFlagsAllFalse ==
    (last_op = "get_status" /\ link_ret.call.value # None) =>
        LET status == link_ret.call.value[1]
        IN  /\ ~status.ch_enabled /\ ~status.dhw_enabled
            /\ ~status.cooling_enabled /\ ~status.otc_active
            /\ ~status.ch2_enabled /\ ~status.fault

C29_Witness ==
    /\ last_op = "get_status"
    /\ link_ret.call.raised = ""
    /\ link_ret.call.value # None
    /\ link_ret.call.writes = <<<<0, 0, 0, 0>>>>
    /\ link_ret.call.reads = 1

\* Serial handles opened by the link that are open.
OpenHandles == stale_handles + (IF serial = "open" THEN 1 ELSE 0)

\* C28: for every sequence of start() and stop() calls, start() on a
\* Connected link and a failing start() on a Connected link included, at
\* most one serial handle opened by the link is open at any time, and after
\* a stop() no serial handle opened by the link remains open.
C28_AtMostOneHandle ==
    /\ OpenHandles <= 1
    /\ last_op = "stop" => OpenHandles = 0

====
